---- MODULE Spec2Model ----
(***************************************************************************)
(* Model of sql/ndb_ndbapi_util.cc: the helpers between the SQL layer and  *)
(* the NDB dictionary (NdbDictionary::Dictionary, ::Table, ::Column).      *)
(*                                                                         *)
(* Three groups of functions are modelled, each with its own              *)
(* specification:                                                          *)
(*   SpecList / SpecTables  the listing queries ndb_get_*_names            *)
(*   SpecTable              the table attribute inspectors                 *)
(*   SpecPack               ndb_pack_varchar                               *)
(***************************************************************************)
EXTENDS Integers, Sequences, FiniteSets, TLC

VARIABLES
  objects,    \* the dictionary's objects, in the order listObjects reports them
  names_out,  \* the caller's std::unordered_set<std::string>
  files_out,  \* the caller's std::vector<std::string>
  call,       \* the last listing call: operation, arguments, result, outputs before
  tab,        \* the NdbDictionary::Table handed to the inspectors
  res,        \* the last inspector call and what it returned
  col,        \* the NdbDictionary::Column ndb_pack_varchar packs for
  buf,        \* char buf[512]
  pk          \* the last ndb_pack_varchar call

vars == <<objects, names_out, files_out, call, tab, res, col, buf, pk>>

(***************************************************************************)
(* Bounds                                                                  *)
(***************************************************************************)
MaxLen == 2      \* objects in the dictionary
MaxOut == 3      \* entries the caller's vector may hold

Max(a, b) == IF a > b THEN a ELSE b

(***************************************************************************)
(* Names.  The naming conventions belong to sql/ndb_name_util; a name is   *)
(* temporary, blob-backing or index-statistics by its prefix.              *)
(***************************************************************************)
TempNames      == {"#sql2-t2"}
BlobNames      == {"NDB$BLOB_12_3"}
IndexStatNames == {"ndb_index_stat_head"}
PlainNames     == {"t1"}
TableNames     == PlainNames \cup TempNames \cup BlobNames \cup IndexStatNames
Databases      == {"db1", "db2"}

ndb_name_is_temp(name)        == name \in TempNames
ndb_name_is_blob_prefix(name) == name \in BlobNames
ndb_name_is_index_stat(name)  == name \in IndexStatNames

\* NdbDictionary::Object::State values the listing can report
States == {"StateOnline", "StateBuilding", "ObsoleteStateBackup", "StateDropping"}

\* One dictionary object.  parent is the logfile group of an undofile or the
\* tablespace of a datafile; found tells whether a lookup of the object by
\* name succeeds.
Obj(type, name, database, state, parent, found) ==
  [type |-> type, name |-> name, database |-> database, state |-> state,
   parent |-> parent, found |-> found]

TableObjects ==
  {Obj("UserTable", n, d, s, "", TRUE) : n \in TableNames, d \in Databases, s \in States}

\* undofiles of two logfile groups and datafiles of one tablespace, each
\* either resolvable by name or not
UndofileObjects ==
  {Obj("Undofile", n, "", "StateOnline", p[1], p[2]) :
     n \in {"uf1", "uf2"}, p \in {<<"lg_a", TRUE>>, <<"lg_b", TRUE>>, <<"", FALSE>>}}
DatafileObjects ==
  {Obj("Datafile", n, "", "StateOnline", p[1], p[2]) :
     n \in {"df1", "df2"}, p \in {<<"ts1", TRUE>>, <<"", FALSE>>}}
LogfileGroupObjects == {Obj("LogfileGroup", "lg_a", "", "StateOnline", "", TRUE)}
TablespaceObjects   == {Obj("Tablespace", "ts1", "", "StateOnline", "", TRUE)}
FewTableObjects     == {Obj("UserTable", "t1", "db1", "StateOnline", "", TRUE)}

ListUniverse == UndofileObjects \cup DatafileObjects \cup LogfileGroupObjects
                  \cup TablespaceObjects \cup FewTableObjects

\* the dictionary holds one object per (type, database, name)
Key(o) == <<o.type, o.database, o.name>>
UniqueKeys(seq) == \A i, j \in DOMAIN seq : Key(seq[i]) = Key(seq[j]) => i = j

SeqsUpTo(S, n) == UNION {[1..k -> S] : k \in 0..n}
Dictionaries(S) == {seq \in SeqsUpTo(S, MaxLen) : UniqueKeys(seq)}

\* the target names a caller asks for
Targets == {"lg_a", "ts1", ""}
Schemas == Databases

\* listObjects return codes: 0 is success, -1 failure
ListRc == {0, -1}

NoCall == [op |-> "none", target |-> "", ret |-> FALSE, rc |-> 0,
           prev_names |-> {}, prev_files |-> <<>>]

(***************************************************************************)
(* The dictionary service as this file uses it                             *)
(***************************************************************************)
\* dict->listObjects(list, type): the listed elements of one object type
listObjects(type) == SelectSeq(objects, LAMBDA o : o.type = type)

\* dict->getUndofile(-1, name).getLogfileGroup(): the group of the undofile of
\* that name; a failed lookup returns a default-constructed object, whose
\* group name is empty
getUndofile_getLogfileGroup(name) ==
  LET m == {i \in DOMAIN objects : /\ objects[i].type = "Undofile"
                                   /\ objects[i].name = name
                                   /\ objects[i].found}
  IN IF m = {} THEN "" ELSE objects[CHOOSE i \in m : TRUE].parent

\* dict->getDatafile(-1, name).getTablespace(), likewise
getDatafile_getTablespace(name) ==
  LET m == {i \in DOMAIN objects : /\ objects[i].type = "Datafile"
                                   /\ objects[i].name = name
                                   /\ objects[i].found}
  IN IF m = {} THEN "" ELSE objects[CHOOSE i \in m : TRUE].parent

(***************************************************************************)
(* Listing queries                                                         *)
(***************************************************************************)
\* what a listing query leaves behind: its return value and the two outputs
Return(op, target, rc, ret, names, files) ==
  /\ call' = [op |-> op, target |-> target, ret |-> ret, rc |-> rc,
              prev_names |-> names_out, prev_files |-> files_out]
  /\ names_out' = names
  /\ files_out' = files
  /\ UNCHANGED <<objects, tab, res, col, buf, pk>>

\* for (i = 0; i < list.count; i++) names.insert(list.elements[i].name)
RECURSIVE insert_names(_, _, _)
insert_names(list, i, names) ==
  IF i > Len(list) THEN names
  ELSE insert_names(list, i + 1, names \cup {list[i].name})

\* as ndb_get_logfile_group_names, without the return on a failed listObjects
ndb_get_logfile_group_names_unchecked ==
  \E rc \in ListRc :
    LET lfg_list == listObjects("LogfileGroup") IN
    Return("logfile_group_names", "", rc, rc = 0,
           insert_names(lfg_list, 1, names_out), files_out)

ndb_get_logfile_group_names ==
  \E rc \in ListRc :
    LET lfg_list == listObjects("LogfileGroup") IN
    IF rc # 0
      THEN Return("logfile_group_names", "", rc, FALSE, names_out, files_out)
      ELSE Return("logfile_group_names", "", rc, TRUE,
                  insert_names(lfg_list, 1, names_out), files_out)

ndb_get_tablespace_names ==
  \E rc \in ListRc :
    LET tablespace_list == listObjects("Tablespace") IN
    IF rc # 0
      THEN Return("tablespace_names", "", rc, FALSE, names_out, files_out)
      ELSE Return("tablespace_names", "", rc, TRUE,
                  insert_names(tablespace_list, 1, names_out), files_out)

\* as table_names_body, without ObsoleteStateBackup among the accepted states
table_names_body_no_backup(elmt, schema_name, table_names) ==
  IF schema_name # elmt.database THEN table_names
  ELSE IF \/ ndb_name_is_temp(elmt.name)
          \/ ndb_name_is_blob_prefix(elmt.name)
          \/ ndb_name_is_index_stat(elmt.name) THEN table_names
  ELSE IF \/ elmt.state = "StateOnline"
          \/ elmt.state = "StateBuilding" THEN table_names \cup {elmt.name}
  ELSE table_names

\* the body of the loop of ndb_get_table_names_in_schema
table_names_body(elmt, schema_name, table_names) ==
  IF schema_name # elmt.database THEN table_names
  ELSE IF \/ ndb_name_is_temp(elmt.name)
          \/ ndb_name_is_blob_prefix(elmt.name)
          \/ ndb_name_is_index_stat(elmt.name) THEN table_names
  ELSE IF \/ elmt.state = "StateOnline"
          \/ elmt.state = "ObsoleteStateBackup"
          \/ elmt.state = "StateBuilding" THEN table_names \cup {elmt.name}
  ELSE table_names

RECURSIVE table_names_loop(_, _, _, _)
table_names_loop(list, i, schema_name, table_names) ==
  IF i > Len(list) THEN table_names
  ELSE table_names_loop(list, i + 1, schema_name,
                        table_names_body(list[i], schema_name, table_names))

ndb_get_table_names_in_schema(schema_name) ==
  \E rc \in ListRc :
    LET list == listObjects("UserTable") IN
    IF rc # 0
      THEN Return("table_names_in_schema", schema_name, rc, FALSE, names_out, files_out)
      ELSE Return("table_names_in_schema", schema_name, rc, TRUE,
                  table_names_loop(list, 1, schema_name, names_out), files_out)

\* as undofile_names_body, comparing the undofile's own name with the target
undofile_names_body_own_name(elmt, logfile_group_name, undofile_names) ==
  IF logfile_group_name = elmt.name
    THEN Append(undofile_names, elmt.name)
    ELSE undofile_names

\* the body of the loop of ndb_get_undofile_names
undofile_names_body(elmt, logfile_group_name, undofile_names) ==
  IF logfile_group_name = getUndofile_getLogfileGroup(elmt.name)
    THEN Append(undofile_names, elmt.name)
    ELSE undofile_names

RECURSIVE undofile_names_loop(_, _, _, _)
undofile_names_loop(list, i, logfile_group_name, undofile_names) ==
  IF i > Len(list) THEN undofile_names
  ELSE undofile_names_loop(list, i + 1, logfile_group_name,
                           undofile_names_body(list[i], logfile_group_name, undofile_names))

ndb_get_undofile_names(logfile_group_name) ==
  \E rc \in ListRc :
    LET undofile_list == listObjects("Undofile") IN
    /\ Len(files_out) + Len(undofile_list) <= MaxOut
    /\ IF rc # 0
         THEN Return("undofile_names", logfile_group_name, rc, FALSE, names_out, files_out)
         ELSE Return("undofile_names", logfile_group_name, rc, TRUE, names_out,
                     undofile_names_loop(undofile_list, 1, logfile_group_name, files_out))

\* as datafile_names_body, putting the name at the front of the vector
datafile_names_body_front(elmt, tablespace_name, datafile_names) ==
  IF tablespace_name = getDatafile_getTablespace(elmt.name)
    THEN <<elmt.name>> \o datafile_names
    ELSE datafile_names

\* the body of the loop of ndb_get_datafile_names
datafile_names_body(elmt, tablespace_name, datafile_names) ==
  IF tablespace_name = getDatafile_getTablespace(elmt.name)
    THEN Append(datafile_names, elmt.name)
    ELSE datafile_names

RECURSIVE datafile_names_loop(_, _, _, _)
datafile_names_loop(list, i, tablespace_name, datafile_names) ==
  IF i > Len(list) THEN datafile_names
  ELSE datafile_names_loop(list, i + 1, tablespace_name,
                           datafile_names_body(list[i], tablespace_name, datafile_names))

ndb_get_datafile_names(tablespace_name) ==
  \E rc \in ListRc :
    LET datafile_list == listObjects("Datafile") IN
    /\ Len(files_out) + Len(datafile_list) <= MaxOut
    /\ IF rc # 0
         THEN Return("datafile_names", tablespace_name, rc, FALSE, names_out, files_out)
         ELSE Return("datafile_names", tablespace_name, rc, TRUE, names_out,
                     datafile_names_loop(datafile_list, 1, tablespace_name, files_out))

\* as database_names_body, accepting StateOnline only
database_names_body_online_only(elmt, database_names) ==
  IF \/ elmt.state # "StateOnline"
     \/ ndb_name_is_temp(elmt.name)
     \/ ndb_name_is_blob_prefix(elmt.name)
    THEN database_names
    ELSE database_names \cup {elmt.database}

\* the body of the loop of ndb_get_database_names_in_dictionary
database_names_body(elmt, database_names) ==
  IF \/ (elmt.state # "StateOnline" /\ elmt.state # "StateBuilding")
     \/ ndb_name_is_temp(elmt.name)
     \/ ndb_name_is_blob_prefix(elmt.name)
    THEN database_names
    ELSE database_names \cup {elmt.database}

RECURSIVE database_names_loop(_, _, _)
database_names_loop(list, i, database_names) ==
  IF i > Len(list) THEN database_names
  ELSE database_names_loop(list, i + 1, database_names_body(list[i], database_names))

ndb_get_database_names_in_dictionary ==
  \E rc \in ListRc :
    LET list == listObjects("UserTable") IN
    IF rc # 0
      THEN Return("database_names_in_dictionary", "", rc, FALSE, names_out, files_out)
      ELSE Return("database_names_in_dictionary", "", rc, TRUE,
                  database_names_loop(list, 1, names_out), files_out)

GetTableNames == \E schema_name \in Schemas : ndb_get_table_names_in_schema(schema_name)
GetUndofileNames == \E logfile_group_name \in Targets : ndb_get_undofile_names(logfile_group_name)
GetDatafileNames == \E tablespace_name \in Targets : ndb_get_datafile_names(tablespace_name)

\* the state the listing queries do not touch
TableIdle == [tablespace_name |-> "", has_tablespace_id |-> FALSE, columns |-> <<>>]
NoReply   == [code |-> 0, name |-> ""]
ResIdle   == [fn |-> "none", bool |-> FALSE, null |-> FALSE, str |-> "",
              queries |-> 0, reply |-> NoReply]
PackIdle  == [state |-> "idle", sz |-> 0, seed |-> 0, fill |-> 0, overrun |-> 0]
OthersIdle ==
  /\ tab = TableIdle
  /\ res = ResIdle
  /\ col = [array_type |-> "ArrayTypeFixed", length |-> 0]
  /\ buf = <<>>
  /\ pk = PackIdle

InitList ==
  /\ objects \in Dictionaries(ListUniverse)
  /\ names_out = {}
  /\ files_out = <<>>
  /\ call = NoCall
  /\ OthersIdle

InitTables ==
  /\ objects \in Dictionaries(TableObjects)
  /\ names_out = {}
  /\ files_out = <<>>
  /\ call = NoCall
  /\ OthersIdle

NextList ==
  \/ ndb_get_logfile_group_names
  \/ ndb_get_tablespace_names
  \/ GetTableNames
  \/ GetUndofileNames
  \/ GetDatafileNames
  \/ ndb_get_database_names_in_dictionary

NextTables ==
  \/ GetTableNames
  \/ ndb_get_database_names_in_dictionary

SpecList   == InitList /\ [][NextList]_vars
SpecTables == InitTables /\ [][NextTables]_vars

(***************************************************************************)
(* Properties of the listing queries                                       *)
(***************************************************************************)
ListingOps == {"logfile_group_names", "tablespace_names", "table_names_in_schema",
               "undofile_names", "datafile_names", "database_names_in_dictionary"}

Listed(type) == {i \in DOMAIN objects : objects[i].type = type}
NamesOf(seq) == [i \in DOMAIN seq |-> seq[i].name]
IsPrefix(s, t) == Len(s) <= Len(t) /\ SubSeq(t, 1, Len(s)) = s
\* what the last call appended to the vector
Appended == SubSeq(files_out, Len(call.prev_files) + 1, Len(files_out))
Range(seq) == {seq[i] : i \in DOMAIN seq}

\* C1: a listing query whose listObjects request fails returns false and
\* leaves the caller's collections exactly as they were.
C1_FailedListingHasNoEffect ==
  (call.op \in ListingOps /\ call.rc # 0) =>
    /\ call.ret = FALSE
    /\ names_out = call.prev_names
    /\ files_out = call.prev_files

\* a failed logfile group listing on a dictionary that has a logfile group the
\* caller's set does not hold yet
C1_Witness ==
  /\ call.op = "logfile_group_names"
  /\ call.rc # 0
  /\ \E i \in Listed("LogfileGroup") : objects[i].name \notin names_out

\* C2: a successful ndb_get_table_names_in_schema returns true and adds exactly
\* the names of the listed tables of the requested schema that are not
\* temporary, blob or index-statistics names and are online, building or in
\* the obsolete backup state.
C2_TableNamesInSchema ==
  (call.op = "table_names_in_schema" /\ call.rc = 0) =>
    /\ call.ret = TRUE
    /\ files_out = call.prev_files
    /\ names_out = call.prev_names \cup
         {objects[i].name : i \in
            {j \in Listed("UserTable") :
               /\ objects[j].database = call.target
               /\ objects[j].name \notin TempNames \cup BlobNames \cup IndexStatNames
               /\ objects[j].state \in {"StateOnline", "StateBuilding", "ObsoleteStateBackup"}}}

\* a table in the backup state is added while another listed table is left out
C2_Witness ==
  /\ call.op = "table_names_in_schema"
  /\ call.rc = 0
  /\ \E i, j \in Listed("UserTable") :
       /\ objects[i].database = call.target
       /\ objects[i].state = "ObsoleteStateBackup"
       /\ objects[i].name \in names_out \ call.prev_names
       /\ objects[j].name \notin names_out

\* C3 as stated: a successful ndb_get_database_names_in_dictionary adds exactly
\* the schemas of the listed tables that are online or building and whose
\* name is not temporary, blob or index-statistics.
C3_DatabaseNames_AsStated ==
  (call.op = "database_names_in_dictionary" /\ call.rc = 0) =>
    names_out = call.prev_names \cup
      {objects[i].database : i \in
         {j \in Listed("UserTable") :
            /\ objects[j].state \in {"StateOnline", "StateBuilding"}
            /\ objects[j].name \notin TempNames \cup BlobNames \cup IndexStatNames}}

\* C3 amended: a successful ndb_get_database_names_in_dictionary returns true
\* and adds exactly the schemas of the listed tables that are online or
\* building and whose name is neither temporary nor blob; index-statistics
\* names are not filtered.  Table names are never added.
C3_DatabaseNames ==
  (call.op = "database_names_in_dictionary" /\ call.rc = 0) =>
    /\ call.ret = TRUE
    /\ files_out = call.prev_files
    /\ names_out = call.prev_names \cup
         {objects[i].database : i \in
            {j \in Listed("UserTable") :
               /\ objects[j].state \in {"StateOnline", "StateBuilding"}
               /\ objects[j].name \notin TempNames \cup BlobNames}}
    /\ (names_out \ call.prev_names) \cap TableNames = {}

\* the schema of a building index-statistics table is added and the schema of
\* another table, skipped by the filter, is not
C3_Witness ==
  /\ call.op = "database_names_in_dictionary"
  /\ call.rc = 0
  /\ \E i, j \in Listed("UserTable") :
       /\ objects[i].name \in IndexStatNames
       /\ objects[i].state = "StateBuilding"
       /\ objects[i].database \in names_out \ call.prev_names
       /\ objects[j].database \notin names_out

\* the listed files of a type no lookup by name resolves
Unresolved(type) ==
  {i \in Listed(type) :
     \A j \in Listed(type) : objects[j].name = objects[i].name => ~objects[j].found}

\* C4: ndb_get_undofile_names and ndb_get_datafile_names return false only
\* when listObjects fails, and never append the name of a listed file whose
\* logfile group or tablespace could not be resolved, whatever the target.
C4_UnresolvedNeverMatches ==
  /\ call.op = "undofile_names" =>
       /\ call.ret = (call.rc = 0)
       /\ \A i \in Unresolved("Undofile") : objects[i].name \notin Range(Appended)
  /\ call.op = "datafile_names" =>
       /\ call.ret = (call.rc = 0)
       /\ \A i \in Unresolved("Datafile") : objects[i].name \notin Range(Appended)

\* the names, in listing order, of the listed files whose parent is the target
Matching(type, parentOf(_), target) ==
  NamesOf(SelectSeq(listObjects(type), LAMBDA e : parentOf(e.name) = target))

\* C5: a successful ndb_get_undofile_names (ndb_get_datafile_names) returns
\* true and appends, in listing order, exactly the names of the listed
\* undofiles (datafiles) whose logfile group (tablespace) name equals the
\* target, and nothing else.
C5_FileNamesOfParent ==
  /\ (call.op = "undofile_names" /\ call.rc = 0) =>
       /\ call.ret = TRUE
       /\ names_out = call.prev_names
       /\ files_out = call.prev_files \o
            Matching("Undofile", getUndofile_getLogfileGroup, call.target)
  /\ (call.op = "datafile_names" /\ call.rc = 0) =>
       /\ call.ret = TRUE
       /\ names_out = call.prev_names
       /\ files_out = call.prev_files \o
            Matching("Datafile", getDatafile_getTablespace, call.target)

\* two undofiles are listed, of the target group and of another group, and
\* only the first is appended, behind what the vector held
C5_Witness ==
  /\ call.op = "undofile_names"
  /\ call.rc = 0
  /\ call.prev_files # <<>>
  /\ Len(Appended) = 1
  /\ \E i, j \in Listed("Undofile") :
       /\ objects[i].found /\ objects[i].parent = call.target
       /\ objects[j].found /\ objects[j].parent # call.target

\* C9: a listing query only appends: what the set held it still holds, and
\* the vector keeps its earlier entries at their positions.
C9_OnlyAppends ==
  [][names_out \subseteq names_out' /\ IsPrefix(files_out, files_out')]_vars

\* both collections held something and the last call added to the vector
C9_Witness ==
  /\ call.op = "datafile_names"
  /\ call.prev_files # <<>>
  /\ call.prev_names # {}
  /\ Len(files_out) > Len(call.prev_files)

(***************************************************************************)
(* Table attribute inspectors                                              *)
(***************************************************************************)
Column(name, type, length, nullable, primaryKey, autoIncrement, defaultValue) ==
  [null |-> FALSE, name |-> name, type |-> type, length |-> length,
   nullable |-> nullable, primaryKey |-> primaryKey,
   autoIncrement |-> autoIncrement, defaultValue |-> defaultValue]
NullColumn == [null |-> TRUE]

ColumnTypes   == {"Bigunsigned", "Unsigned"}
ColumnLengths == {1, 2}
DefaultValues == {"nullptr", "value"}

PkColumns ==
  {Column("$PK", t, l, n, p, a, d) :
     t \in ColumnTypes, l \in ColumnLengths, n \in BOOLEAN, p \in BOOLEAN,
     a \in BOOLEAN, d \in DefaultValues}
OtherColumns == {Column("a", "Unsigned", 1, FALSE, p, FALSE, "nullptr") : p \in BOOLEAN}

ColumnLists ==
  {<<>>} \cup {<<c>> : c \in PkColumns \cup OtherColumns}
         \cup {<<c, d>> : c \in PkColumns, d \in OtherColumns}

Tables ==
  [tablespace_name : {"", "ts_raw"}, has_tablespace_id : BOOLEAN, columns : ColumnLists]

\* what the dictionary answers to getTablespace(id): the error code the handle
\* reports afterwards and the name of the returned Tablespace object
DictReplies == {[code |-> 0, name |-> "ts_alpha"],
                [code |-> 723, name |-> ""],
                [code |-> 723, name |-> "ts_alpha"]}

\* ndbtab->getNoOfPrimaryKeys()
getNoOfPrimaryKeys(ndbtab) ==
  Cardinality({i \in DOMAIN ndbtab.columns : ndbtab.columns[i].primaryKey})

\* ndbtab->getColumn(name): the column of that name, or a null pointer
getColumn(ndbtab, name) ==
  LET m == {i \in DOMAIN ndbtab.columns : ndbtab.columns[i].name = name}
  IN IF m = {} THEN NullColumn ELSE ndbtab.columns[CHOOSE i \in m : TRUE]

\* as ndb_table_has_hidden_pk, without the test of getNullable()
ndb_table_has_hidden_pk_nullable(ndbtab) ==
  IF getNoOfPrimaryKeys(ndbtab) = 1
    THEN LET ndbcol == getColumn(ndbtab, "$PK") IN
         IF /\ ~ndbcol.null
            /\ ndbcol.type = "Bigunsigned"
            /\ ndbcol.length = 1
            /\ ndbcol.primaryKey = TRUE
            /\ ndbcol.autoIncrement = TRUE
            /\ ndbcol.defaultValue = "nullptr"
           THEN TRUE
           ELSE FALSE
    ELSE FALSE

ndb_table_has_hidden_pk(ndbtab) ==
  IF getNoOfPrimaryKeys(ndbtab) = 1
    THEN LET ndbcol == getColumn(ndbtab, "$PK") IN
         IF /\ ~ndbcol.null
            /\ ndbcol.type = "Bigunsigned"
            /\ ndbcol.length = 1
            /\ ndbcol.nullable = FALSE
            /\ ndbcol.primaryKey = TRUE
            /\ ndbcol.autoIncrement = TRUE
            /\ ndbcol.defaultValue = "nullptr"
           THEN TRUE
           ELSE FALSE
    ELSE FALSE

\* a const char*: null, or a string
Ptr(isnull, str) == [null |-> isnull, str |-> str]

\* as the name-only lookup, returning nullptr when there is no tablespace id
ndb_table_tablespace_name_by_id(ndbtab) ==
  LET tablespace_name == ndbtab.tablespace_name IN
  IF tablespace_name = "" /\ ~ndbtab.has_tablespace_id
    THEN Ptr(TRUE, "")
    ELSE Ptr(FALSE, tablespace_name)

\* const char* ndb_table_tablespace_name(ndbtab), the name-only lookup
ndb_table_tablespace_name(ndbtab) ==
  LET tablespace_name == ndbtab.tablespace_name IN
  IF tablespace_name = ""
    THEN Ptr(TRUE, "")
    ELSE Ptr(FALSE, tablespace_name)

ndb_table_has_tablespace(ndbtab) ==
  IF ~ndb_table_tablespace_name(ndbtab).null THEN TRUE
  ELSE IF ndbtab.has_tablespace_id THEN TRUE
  ELSE FALSE

ndb_dict_check_NDB_error(reply) == reply.code # 0

\* as the lookup with fallback, taking the name when the dictionary reports an error
ndb_table_tablespace_name_dict_inverted(reply, ndbtab) ==
  LET tablespace_name == ndbtab.tablespace_name IN
  IF tablespace_name = ""
    THEN IF ndbtab.has_tablespace_id
           THEN IF ndb_dict_check_NDB_error(reply)
                  THEN [str |-> reply.name, queries |-> 1]
                  ELSE [str |-> tablespace_name, queries |-> 1]
           ELSE [str |-> tablespace_name, queries |-> 0]
    ELSE [str |-> tablespace_name, queries |-> 0]

\* std::string ndb_table_tablespace_name(dict, ndbtab), the lookup with
\* fallback: the string returned and the number of dictionary queries made
ndb_table_tablespace_name_dict(reply, ndbtab) ==
  LET tablespace_name == ndbtab.tablespace_name IN
  IF tablespace_name = ""
    THEN IF ndbtab.has_tablespace_id
           THEN IF ~ndb_dict_check_NDB_error(reply)
                  THEN [str |-> reply.name, queries |-> 1]
                  ELSE [str |-> tablespace_name, queries |-> 1]
           ELSE [str |-> tablespace_name, queries |-> 0]
    ELSE [str |-> tablespace_name, queries |-> 0]

Inspect(r) ==
  /\ res' = r
  /\ UNCHANGED <<tab, objects, names_out, files_out, call, col, buf, pk>>

HasHiddenPk ==
  Inspect([ResIdle EXCEPT !.fn = "has_hidden_pk", !.bool = ndb_table_has_hidden_pk(tab)])

HasTablespace ==
  Inspect([ResIdle EXCEPT !.fn = "has_tablespace", !.bool = ndb_table_has_tablespace(tab)])

TablespaceName ==
  LET p == ndb_table_tablespace_name(tab) IN
  Inspect([ResIdle EXCEPT !.fn = "tablespace_name", !.null = p.null, !.str = p.str])

TablespaceNameDict ==
  \E reply \in DictReplies :
    LET r == ndb_table_tablespace_name_dict(reply, tab) IN
    Inspect([ResIdle EXCEPT !.fn = "tablespace_name_dict", !.str = r.str,
                            !.queries = r.queries, !.reply = reply])

\* the tables that differ from ndbtab in one attribute of one column, or by
\* one column less
OneChange(ndbtab) ==
  LET cs == ndbtab.columns
      flips(c) ==
        IF c.name = "$PK"
          THEN {[c EXCEPT !.type = t] : t \in ColumnTypes}
               \cup {[c EXCEPT !.length = l] : l \in ColumnLengths}
               \cup {[c EXCEPT !.nullable = ~c.nullable],
                     [c EXCEPT !.primaryKey = ~c.primaryKey],
                     [c EXCEPT !.autoIncrement = ~c.autoIncrement]}
               \cup {[c EXCEPT !.defaultValue = d] : d \in DefaultValues}
          ELSE {[c EXCEPT !.primaryKey = ~c.primaryKey]}
      without(i) == SelectSeq([j \in DOMAIN cs |-> IF j = i THEN NullColumn ELSE cs[j]],
                              LAMBDA c : ~c.null)
  IN UNION {{[ndbtab EXCEPT !.columns[i] = c] : c \in flips(cs[i])} : i \in DOMAIN cs}
     \cup {[ndbtab EXCEPT !.columns = without(i)] : i \in DOMAIN cs}
     \cup (IF Len(cs) = 1 /\ cs[1].name = "$PK"
             THEN {[ndbtab EXCEPT !.columns = Append(cs, c)] : c \in OtherColumns}
             ELSE {})

\* the caller comes with a table that differs in one attribute
ChangeOneAttribute ==
  \E t \in OneChange(tab) \ {tab} :
    /\ tab' = t
    /\ res' = ResIdle
    /\ UNCHANGED <<objects, names_out, files_out, call, col, buf, pk>>

InitTable ==
  /\ tab \in Tables
  /\ res = ResIdle
  /\ objects = <<>>
  /\ names_out = {}
  /\ files_out = <<>>
  /\ call = NoCall
  /\ col = [array_type |-> "ArrayTypeFixed", length |-> 0]
  /\ buf = <<>>
  /\ pk = PackIdle

NextTable ==
  \/ HasHiddenPk
  \/ HasTablespace
  \/ TablespaceName
  \/ TablespaceNameDict
  \/ ChangeOneAttribute

SpecTable == InitTable /\ [][NextTable]_vars

\* the conditions of a hidden primary key, one by one
HiddenPkConditions(ndbtab) ==
  LET m == {i \in DOMAIN ndbtab.columns : ndbtab.columns[i].name = "$PK"} IN
  << Cardinality({i \in DOMAIN ndbtab.columns : ndbtab.columns[i].primaryKey}) = 1,
     m # {},
     \A i \in m : ndbtab.columns[i].type = "Bigunsigned",
     \A i \in m : ndbtab.columns[i].length = 1,
     \A i \in m : ~ndbtab.columns[i].nullable,
     \A i \in m : ndbtab.columns[i].primaryKey,
     \A i \in m : ndbtab.columns[i].autoIncrement,
     \A i \in m : ndbtab.columns[i].defaultValue = "nullptr" >>
AllHold(conds) == \A i \in DOMAIN conds : conds[i]

\* C8: ndb_table_has_hidden_pk returns true exactly when the table has one
\* primary key column and its column "$PK" exists, is Bigunsigned of length 1,
\* not nullable, a primary key, auto-increment and without default value; and
\* from a table for which it returns true, a change of any one condition makes
\* it return false.
C8_HiddenPk ==
  [][ /\ res'.fn = "has_hidden_pk" => res'.bool = AllHold(HiddenPkConditions(tab'))
      /\ ( /\ res.fn = "has_hidden_pk" /\ res.bool
           /\ HiddenPkConditions(tab') # HiddenPkConditions(tab) )
         => ~ndb_table_has_hidden_pk(tab') ]_vars

\* the inspector answers true for a table with a hidden primary key
C8_Witness ==
  /\ res.fn = "has_hidden_pk"
  /\ res.bool
  /\ Len(tab.columns) = 2

\* C6: the lookup with fallback returns the raw name, without a dictionary
\* query, when it is not empty; with an empty name and a tablespace id it
\* asks the dictionary once and returns the resolved name if the dictionary
\* reports no error and the empty string if it does; with neither it returns
\* the empty string.
C6_TablespaceNameFallback ==
  res.fn = "tablespace_name_dict" =>
    /\ tab.tablespace_name # "" =>
         res.str = tab.tablespace_name /\ res.queries = 0
    /\ (tab.tablespace_name = "" /\ tab.has_tablespace_id) =>
         /\ res.queries = 1
         /\ res.reply.code = 0 => res.str = res.reply.name
         /\ res.reply.code # 0 => res.str = ""
    /\ (tab.tablespace_name = "" /\ ~tab.has_tablespace_id) =>
         res.str = "" /\ res.queries = 0

\* the dictionary reports an error for the id and the lookup returns ""
C6_Witness ==
  /\ res.fn = "tablespace_name_dict"
  /\ tab.tablespace_name = ""
  /\ tab.has_tablespace_id
  /\ res.reply.code # 0
  /\ res.reply.name # ""
  /\ res.str = ""

\* C10: ndb_table_has_tablespace is true exactly when the raw tablespace name
\* is not empty or the table has a tablespace id; the name-only lookup returns
\* nullptr exactly when the raw name is empty, with or without an id.
C10_HasTablespace ==
  /\ res.fn = "has_tablespace" =>
       res.bool = (tab.tablespace_name # "" \/ tab.has_tablespace_id)
  /\ res.fn = "tablespace_name" =>
       /\ res.null = (tab.tablespace_name = "")
       /\ ~res.null => res.str = tab.tablespace_name

\* a table with an id and no name: it has a tablespace, the lookup says nullptr
C10_Witness ==
  /\ res.fn = "tablespace_name"
  /\ res.null
  /\ tab.has_tablespace_id
  /\ ndb_table_has_tablespace(tab)

(***************************************************************************)
(* ndb_pack_varchar                                                        *)
(***************************************************************************)
BufSize == 512   \* char (&buf)[512]

ArrayTypes  == {"ArrayTypeFixed", "ArrayTypeShortVar", "ArrayTypeMediumVar", "ArrayTypeOther"}
PackLengths == {0, 1, 2, 255, 256, 257, 510, 511, 512}   \* col->getLength(), sz
Seeds       == {0, 101}
Fills       == {0, 170}

\* the source string str, and what the caller's buffer holds before the call
Src(seed, i)     == (seed + 3 * i) % 256
InitBuf(fill)    == [i \in 0..(BufSize - 1) |-> (fill + i) % 256]

\* memcpy(b + off, str, sz): the bytes that land in the array, and the number
\* of bytes written behind its end
memcpy(b, off, seed, sz) ==
  [buf |-> [i \in 0..(BufSize - 1) |->
              IF off <= i /\ i < off + sz THEN Src(seed, i - off) ELSE b[i]],
   overrun |-> Max(0, off + sz - BufSize)]

\* int2store(b, A): A as two bytes, low byte first
int2store(b, A) == [b EXCEPT ![0] = A % 256, ![1] = A \div 256]

ndb_pack_varchar(c, b, seed, sz) ==
  CASE c.array_type = "ArrayTypeFixed" ->
         memcpy(b, 0, seed, sz)
    [] c.array_type = "ArrayTypeShortVar" ->
         memcpy([b EXCEPT ![0] = sz % 256], 1, seed, sz)
    [] c.array_type = "ArrayTypeMediumVar" ->
         memcpy(int2store(b, sz % 65536), 2, seed, sz)
    [] OTHER -> [buf |-> b, overrun |-> 0]

\* One call.  The caller keeps sz <= col->getLength() and the assert keeps
\* col->getLength() <= sizeof(buf).  A write behind the end of buf is
\* undefined: the call returns with the neighbouring memory overwritten, or
\* the process is stopped.
Pack ==
  \E sz \in PackLengths, seed \in Seeds :
    /\ pk.state = "idle"
    /\ col.length <= BufSize
    /\ sz <= col.length
    /\ LET r == ndb_pack_varchar(col, buf, seed, sz) IN
       /\ buf' = r.buf
       /\ \E st \in (IF r.overrun > 0 THEN {"packed", "aborted"} ELSE {"packed"}) :
            pk' = [pk EXCEPT !.state = st, !.sz = sz, !.seed = seed, !.overrun = r.overrun]
    /\ UNCHANGED <<col, objects, names_out, files_out, call, tab, res>>

InitPack ==
  /\ col \in [array_type : ArrayTypes, length : PackLengths]
  /\ \E fill \in Fills :
       /\ buf = InitBuf(fill)
       /\ pk = [PackIdle EXCEPT !.fill = fill]
  /\ objects = <<>>
  /\ names_out = {}
  /\ files_out = <<>>
  /\ call = NoCall
  /\ tab = TableIdle
  /\ res = ResIdle

NextPack == Pack

SpecPack == InitPack /\ [][NextPack]_vars

PrefixLen(c) ==
  CASE c.array_type = "ArrayTypeShortVar" -> 1
    [] c.array_type = "ArrayTypeMediumVar" -> 2
    [] OTHER -> 0

\* C7: for every column length L <= 512 and source length s <= L the call
\* returns with the encoding in the buffer: fixed, the s bytes at offset 0;
\* short-variable, the byte s mod 256 and the s bytes at offset 1;
\* medium-variable, s as two bytes, low byte first, and the s bytes at offset
\* 2; any other kind, nothing.  The bytes behind the encoding are unchanged.
C7_PackLayout ==
  pk.state # "idle" =>
    LET prefix  == PrefixLen(col)
        written == IF col.array_type = "ArrayTypeOther" THEN 0 ELSE prefix + pk.sz
    IN /\ pk.state = "packed"
       /\ pk.overrun = 0
       /\ written <= BufSize
       /\ col.array_type = "ArrayTypeShortVar" => buf[0] = pk.sz % 256
       /\ col.array_type = "ArrayTypeMediumVar" =>
            buf[0] = pk.sz % 256 /\ buf[1] = pk.sz \div 256
       /\ col.array_type # "ArrayTypeOther" =>
            \A i \in 0..(pk.sz - 1) :
              prefix + i < BufSize /\ buf[prefix + i] = Src(pk.seed, i)
       /\ \A i \in written..(BufSize - 1) : buf[i] = InitBuf(pk.fill)[i]

====
